---- MODULE Spec2Model ----
(***************************************************************************)
(* A model of the Binance MCP gateway: the process-pipe server             *)
(* (src/binance_mcp/binance_mcp.py, "stdio") and the network server        *)
(* (src/binance_mcp/binance_mcp_sse.py, "sse").                            *)
(*                                                                         *)
(* Python strings that the code lower-cases, upper-cases or looks up are   *)
(* sequences of one-character strings, so that str.lower and str.upper are *)
(* computed character by character.  Python dicts are functions whose      *)
(* DOMAIN is the set of keys.  f-strings are records holding the literal   *)
(* template and the interpolated values.                                   *)
(***************************************************************************)
EXTENDS Integers, Sequences, FiniteSets, TLC

VARIABLES
    variant,          \* which server process runs: "stdio" or "sse"
    symbol_map_file,  \* stdio: symbol_map.csv on disk (Absent or its content)
    dicts,            \* stdio: the dict objects allocated by load_symbol_mappings
    symbol_cache,     \* stdio: _symbol_cache, NoneRef or the index of a dict in dicts
    log_file,         \* stdio: the lines of activity.log
    activity_logs,    \* sse: _activity_logs, the deque(maxlen=1000)
    appended,         \* sse: every entry ever passed to _activity_logs.append (history)
    clock,            \* number of datetime.datetime.now() readings so far
    outbound,         \* the URLs passed to requests.get so far
    csv_reads,        \* number of times load_symbol_mappings opened symbol_map.csv
    call,             \* the last invocation: operation, arguments, upstream reply
    result,           \* what the last invocation returned or raised
    pc,               \* threads of the concurrent specification: position in the code
    local             \* threads of the concurrent specification: local variables

vars == <<variant, symbol_map_file, dicts, symbol_cache, log_file, activity_logs,
          appended, clock, outbound, csv_reads, call, result, pc, local>>

-----------------------------------------------------------------------------
(* Bounds of the model.                                                    *)

\* market queries per behaviour of Spec
MaxCalls == 2
\* log_activity calls per behaviour of SpecRing beyond the deque's capacity
MaxOverflow == 2

-----------------------------------------------------------------------------
(* Python str: characters and case conversion.                             *)

LowerAlpha == <<"a","b","c","d","e","f","g","h","i","j","k","l","m",
                "n","o","p","q","r","s","t","u","v","w","x","y","z">>
UpperAlpha == <<"A","B","C","D","E","F","G","H","I","J","K","L","M",
                "N","O","P","Q","R","S","T","U","V","W","X","Y","Z">>

\* Non-ASCII characters, named by code point.
LongS   == "U+017F"  \* LATIN SMALL LETTER LONG S: lower() keeps it, upper() gives "S"
Kelvin  == "U+212A"  \* KELVIN SIGN: lower() gives "k", upper() keeps it
SharpS  == "U+00DF"  \* LATIN SMALL LETTER SHARP S: upper() gives "SS"

AsciiChars == {LowerAlpha[i] : i \in 1..26} \cup {UpperAlpha[i] : i \in 1..26}
                \cup {"0","1","2","3","4","5","6","7","8","9"}

IsAscii(s) == \A i \in 1..Len(s) : s[i] \in AsciiChars

IndexIn(c, alpha) == CHOOSE i \in 1..26 : alpha[i] = c

\* str.lower() of one character (a string of length 1 or more)
char_lower(c) ==
    IF \E i \in 1..26 : UpperAlpha[i] = c THEN <<LowerAlpha[IndexIn(c, UpperAlpha)]>>
    ELSE IF c = Kelvin THEN <<"k">>
    ELSE <<c>>

\* str.upper() of one character
char_upper(c) ==
    IF \E i \in 1..26 : LowerAlpha[i] = c THEN <<UpperAlpha[IndexIn(c, LowerAlpha)]>>
    ELSE IF c = LongS THEN <<"S">>
    ELSE IF c = SharpS THEN <<"S","S">>
    ELSE <<c>>

RECURSIVE str_lower(_)
str_lower(s) == IF s = <<>> THEN <<>> ELSE char_lower(Head(s)) \o str_lower(Tail(s))

RECURSIVE str_upper(_)
str_upper(s) == IF s = <<>> THEN <<>> ELSE char_upper(Head(s)) \o str_upper(Tail(s))

-----------------------------------------------------------------------------
(* Python dict.                                                            *)

EmptyDict == [k \in {} |-> <<>>]

DictSet(d, k, v) == [x \in (DOMAIN d) \cup {k} |-> IF x = k THEN v ELSE d[x]]

\* dict.get(k, default)
DictGet(d, k, default) == IF k \in DOMAIN d THEN d[k] ELSE default

-----------------------------------------------------------------------------
(* The symbol table: SYMBOL_MAPPINGS of the sse server, and the rows that  *)
(* _initialize_files writes to symbol_map.csv in the stdio server.         *)

symbol_mappings_rows ==
    << << <<"b","t","c">>, <<"B","T","C","U","S","D","T">> >>,
       << <<"b","i","t","c","o","i","n">>, <<"B","T","C","U","S","D","T">> >>,
       << <<"e","t","h">>, <<"E","T","H","U","S","D","T">> >>,
       << <<"e","t","h","e","r","e","u","m">>, <<"E","T","H","U","S","D","T">> >>,
       << <<"s","o","l">>, <<"S","O","L","U","S","D","T">> >>,
       << <<"s","o","l","a","n","a">>, <<"S","O","L","U","S","D","T">> >>,
       << <<"d","o","g","e">>, <<"D","O","G","E","U","S","D","T">> >>,
       << <<"s","h","i","b","a">>, <<"S","H","I","B","U","S","D","T">> >>,
       << <<"x","r","p">>, <<"X","R","P","U","S","D","T">> >>,
       << <<"a","d","a">>, <<"A","D","A","U","S","D","T">> >>,
       << <<"d","o","t">>, <<"D","O","T","U","S","D","T">> >>,
       << <<"l","i","n","k">>, <<"L","I","N","K","U","S","D","T">> >>,
       << <<"l","t","c">>, <<"L","T","C","U","S","D","T">> >>,
       << <<"x","l","m">>, <<"X","L","M","U","S","D","T">> >>,
       << <<"e","o","s">>, <<"E","O","S","U","S","D","T">> >>,
       << <<"b","n","b">>, <<"B","N","B","U","S","D","T">> >>,
       << <<"m","a","t","i","c">>, <<"M","A","T","I","C","U","S","D","T">> >>,
       << <<"a","v","a","x">>, <<"A","V","A","X","U","S","D","T">> >>,
       << <<"a","l","g","o">>, <<"A","L","G","O","U","S","D","T">> >>,
       << <<"f","t","t">>, <<"F","T","T","U","S","D","T">> >>,
       << <<"m","a","n","a">>, <<"M","A","N","A","U","S","D","T">> >>,
       << <<"u","n","i">>, <<"U","N","I","U","S","D","T">> >>,
       << <<"x","m","r">>, <<"X","M","R","U","S","D","T">> >>,
       << <<"x","e","m">>, <<"X","E","M","U","S","D","T">> >> >>

RECURSIVE DictOfRows(_, _)
DictOfRows(rows, d) ==
    IF rows = <<>> THEN d
    ELSE DictOfRows(Tail(rows), DictSet(d, Head(rows)[1], Head(rows)[2]))

SYMBOL_MAPPINGS == DictOfRows(symbol_mappings_rows, EmptyDict)

-----------------------------------------------------------------------------
(* symbol_map.csv as csv.DictReader yields it: a sequence of rows, each a  *)
(* dict with the columns crypto_name and symbol, or a row at which the     *)
(* reader or the row access raises (a missing column, an oversized field,  *)
(* an undecodable byte).  open_fails: open(SYMBOL_MAP_FILE, "r") raises.   *)

Row(name, symbol) == [bad |-> FALSE, crypto_name |-> name, symbol |-> symbol]
BadRow == [bad |-> TRUE, crypto_name |-> <<>>, symbol |-> <<>>]

RECURSIVE RowsOf(_)
RowsOf(pairs) ==
    IF pairs = <<>> THEN <<>>
    ELSE <<Row(Head(pairs)[1], Head(pairs)[2])>> \o RowsOf(Tail(pairs))

AbsentFile == [exists |-> FALSE, open_fails |-> FALSE, rows |-> <<>>]
FileOf(rows) == [exists |-> TRUE, open_fails |-> FALSE, rows |-> rows]

\* what _initialize_files leaves on disk, given what it finds
initialize_files(file) ==
    IF ~file.exists THEN FileOf(RowsOf(symbol_mappings_rows)) ELSE file

DefaultFile == initialize_files(AbsentFile)

\* a table the operator of the server wrote: a mixed-case key, and a symbol
\* ("XAU") whose lower-cased form is the key of another row
CustomFile ==
    FileOf(<< Row(<<"B","t","c">>, <<"X","B","T","U","S","D">>),
              Row(<<"g","o","l","d">>, <<"X","A","U">>),
              Row(<<"x","a","u">>, <<"X","A","U","U","S","D","T">>) >>)

\* a file whose second data row makes the reader raise
TruncatedFile ==
    FileOf(<< Row(<<"b","t","c">>, <<"B","T","C","U","S","D","T">>),
              BadRow,
              Row(<<"e","t","h">>, <<"E","T","H","U","S","D","T">>) >>)

\* a file without the crypto_name column: the first row access raises
BadHeaderFile ==
    FileOf(<< BadRow, Row(<<"b","t","c">>, <<"B","T","C","U","S","D","T">>) >>)

\* a file that exists and cannot be opened for reading
UnreadableFile == [exists |-> TRUE, open_fails |-> TRUE, rows |-> <<>>]

\* symbol_map.csv as found at start-up
FilesAtStartup ==
    {AbsentFile, CustomFile, TruncatedFile, BadHeaderFile, UnreadableFile}

-----------------------------------------------------------------------------
(* Log entries.                                                            *)

NoneRef == 0

\* f"{datetime.datetime.now()}: {message}\n" written to activity.log
FileEntry(t, message) == [time |-> t, timefmt |-> "str", message |-> message]

\* f"{timestamp}: {message}" with timestamp = now().isoformat()
DequeEntry(t, message) == [time |-> t, timefmt |-> "isoformat", message |-> message]

CsvErrorMsg == [fmt |-> "Error reading symbol_map.csv: {e}"]

-----------------------------------------------------------------------------
(* The resolver of the stdio server.  Its state is the record              *)
(* [dicts, symbol_cache, log_file, clock, csv_reads].                      *)

\* the for loop over csv.DictReader: fills d row by row until a row raises
RECURSIVE read_rows(_, _)
read_rows(rows, d) ==
    IF rows = <<>> THEN [d |-> d, raised |-> FALSE]
    ELSE IF Head(rows).bad THEN [d |-> d, raised |-> TRUE]
    ELSE read_rows(Tail(rows),
                   DictSet(d, str_lower(Head(rows).crypto_name), Head(rows).symbol))

\* load_symbol_mappings without the "if _symbol_cache is not None" early return
load_symbol_mappings_no_cache_check(st, file) ==
    LET ref == Len(st.dicts) + 1
        rd  == IF ~file.exists THEN [d |-> EmptyDict, raised |-> FALSE]
               ELSE IF file.open_fails THEN [d |-> EmptyDict, raised |-> TRUE]
               ELSE read_rows(file.rows, EmptyDict)
    IN  [st  |-> [dicts        |-> Append(st.dicts, rd.d),
                  symbol_cache |-> ref,
                  log_file     |-> IF rd.raised
                                   THEN Append(st.log_file,
                                               FileEntry(st.clock + 1, CsvErrorMsg))
                                   ELSE st.log_file,
                  clock        |-> IF rd.raised THEN st.clock + 1 ELSE st.clock,
                  csv_reads    |-> IF file.exists THEN st.csv_reads + 1
                                   ELSE st.csv_reads],
         ref |-> ref]

\* load_symbol_mappings(), run without interruption; ref is what it returns
load_symbol_mappings(st, file) ==
    IF st.symbol_cache # NoneRef THEN [st |-> st, ref |-> st.symbol_cache]
    ELSE
        LET ref == Len(st.dicts) + 1
            rd  == IF ~file.exists THEN [d |-> EmptyDict, raised |-> FALSE]
                   ELSE IF file.open_fails THEN [d |-> EmptyDict, raised |-> TRUE]
                   ELSE read_rows(file.rows, EmptyDict)
        IN  [st  |-> [dicts        |-> Append(st.dicts, rd.d),
                      symbol_cache |-> ref,
                      log_file     |-> IF rd.raised
                                       THEN Append(st.log_file,
                                                   FileEntry(st.clock + 1, CsvErrorMsg))
                                       ELSE st.log_file,
                      clock        |-> IF rd.raised THEN st.clock + 1 ELSE st.clock,
                      csv_reads    |-> IF file.exists THEN st.csv_reads + 1
                                       ELSE st.csv_reads],
             ref |-> ref]

\* get_symbol_from_input with the lookup made on name instead of name.lower()
get_symbol_from_input_no_lower(st, file, name) ==
    LET l == load_symbol_mappings(st, file)
        symbol_mappings == l.st.dicts[l.ref]
    IN  [st    |-> l.st,
         value |-> IF name \in DOMAIN symbol_mappings
                   THEN symbol_mappings[name]
                   ELSE str_upper(name)]

\* get_symbol_from_input that stores the fallback symbol of a name it did
\* not find in the cached mapping
get_symbol_from_input_memoising(st, file, name) ==
    LET l == load_symbol_mappings(st, file)
        symbol_mappings == l.st.dicts[l.ref]
    IN  IF str_lower(name) \in DOMAIN symbol_mappings
        THEN [st |-> l.st, value |-> symbol_mappings[str_lower(name)]]
        ELSE [st |-> [l.st EXCEPT !.dicts[l.ref] =
                         DictSet(@, str_lower(name), str_upper(name))],
              value |-> str_upper(name)]

\* get_symbol_from_input(name) of the stdio server
get_symbol_from_input(st, file, name) ==
    LET l == load_symbol_mappings(st, file)
        symbol_mappings == l.st.dicts[l.ref]
    IN  [st    |-> l.st,
         value |-> IF str_lower(name) \in DOMAIN symbol_mappings
                   THEN symbol_mappings[str_lower(name)]
                   ELSE str_upper(name)]

\* get_symbol_from_input of the sse server with name itself as the fallback
sse_get_symbol_from_input_raw_fallback(name) ==
    DictGet(SYMBOL_MAPPINGS, str_lower(name), name)

\* get_symbol_from_input(name) of the sse server
sse_get_symbol_from_input(name) ==
    DictGet(SYMBOL_MAPPINGS, str_lower(name), str_upper(name))

-----------------------------------------------------------------------------
(* The upstream endpoint: what requests.get(url) gives back.               *)

Url(path, symbol, window) == [path |-> path, symbol |-> symbol, window |-> window]

\* a reply with a status code and a body, or no reply (requests.get raises)
Reply(status, text) == [ok |-> TRUE, status |-> status, text |-> text]
ConnectionFailed == [ok |-> FALSE, status |-> 0, text |-> ""]

PriceText  == "{symbol:BTCUSDT,price:100.5}"
TickerText == "{symbol:BTCUSDT,priceChange:120.5,priceChangePercent:2.3,lastPrice:100.5}"
ErrorText  == "{code:-1121,msg:Invalid symbol.}"
HtmlText   == "<html>Bad Gateway</html>"

\* response.json(): the parsed body, or JSONDecodeError (valid = FALSE)
ParseJson(text) ==
    IF text = PriceText
        THEN [valid |-> TRUE, obj |-> [symbol |-> "BTCUSDT", price |-> "100.5"]]
    ELSE IF text = TickerText
        THEN [valid |-> TRUE,
              obj |-> [symbol |-> "BTCUSDT", priceChange |-> "120.5",
                       priceChangePercent |-> "2.3", lastPrice |-> "100.5"]]
    ELSE IF text = ErrorText
        THEN [valid |-> TRUE, obj |-> [code |-> "-1121", msg |-> "Invalid symbol."]]
    ELSE [valid |-> FALSE, obj |-> [none |-> ""]]

-----------------------------------------------------------------------------
(* What a handler returns or raises.                                       *)

NoMsg == [fmt |-> ""]
Return(v) == [kind |-> "return", exc |-> "", value |-> v]
Raise(exc, v) == [kind |-> "raise", exc |-> exc, value |-> v]

\* the body of a market-query handler after the symbol is resolved and the
\* request is sent: the messages it logs, and what it returns or raises
Outcome(log, res) == [log |-> log, result |-> res]

NoWindow == <<>>

-----------------------------------------------------------------------------
(* The market-query handlers of the stdio server, from the resolved symbol *)
(* on (each is called with the reply that requests.get produced).          *)

\* get_price raising on a non-200 status without writing the log entry
get_price_no_error_log(symbol, reply) ==
    IF ~reply.ok THEN Outcome(<<>>, Raise("ConnectionError", NoMsg))
    ELSE IF reply.status # 200 THEN
        LET m == [fmt |-> "Error getting price for {symbol}: {status_code} {text}",
                  symbol |-> symbol, status |-> reply.status, text |-> reply.text]
        IN  Outcome(<<>>, Raise("Exception", m))
    ELSE
        LET j == ParseJson(reply.text) IN
        IF ~j.valid THEN Outcome(<<>>, Raise("JSONDecodeError", NoMsg))
        ELSE IF "price" \notin DOMAIN j.obj THEN Outcome(<<>>, Raise("KeyError", NoMsg))
        ELSE Outcome(
               <<[fmt |-> "Successfully got the current price for {symbol}: {price}",
                  symbol |-> symbol, price |-> j.obj["price"]]>>,
               Return([fmt |-> "The current price of {symbol} is {price}",
                       symbol |-> symbol, price |-> j.obj["price"]]))

get_price(symbol, reply) ==
    IF ~reply.ok THEN Outcome(<<>>, Raise("ConnectionError", NoMsg))
    ELSE IF reply.status # 200 THEN
        LET m == [fmt |-> "Error getting price for {symbol}: {status_code} {text}",
                  symbol |-> symbol, status |-> reply.status, text |-> reply.text]
        IN  Outcome(<<m>>, Raise("Exception", m))
    ELSE
        LET j == ParseJson(reply.text) IN
        IF ~j.valid THEN Outcome(<<>>, Raise("JSONDecodeError", NoMsg))
        ELSE IF "price" \notin DOMAIN j.obj THEN Outcome(<<>>, Raise("KeyError", NoMsg))
        ELSE Outcome(
               <<[fmt |-> "Successfully got the current price for {symbol}: {price}",
                  symbol |-> symbol, price |-> j.obj["price"]]>>,
               Return([fmt |-> "The current price of {symbol} is {price}",
                       symbol |-> symbol, price |-> j.obj["price"]]))

\* the 24-hour handler without the raise after its error entry: it goes on
\* to read the body
get_price_24hr_change_no_raise(symbol, reply) ==
    IF ~reply.ok THEN Outcome(<<>>, Raise("ConnectionError", NoMsg))
    ELSE
        LET m == [fmt |-> "Error getting price change for {symbol}: {status_code} {text}",
                  symbol |-> symbol, status |-> reply.status, text |-> reply.text]
            logged == IF reply.status # 200 THEN <<m>> ELSE <<>>
            j == ParseJson(reply.text)
        IN  IF ~j.valid THEN Outcome(logged, Raise("JSONDecodeError", NoMsg))
            ELSE IF "priceChange" \notin DOMAIN j.obj
                    \/ "priceChangePercent" \notin DOMAIN j.obj
                THEN Outcome(logged, Raise("KeyError", NoMsg))
            ELSE Outcome(
                   Append(logged,
                     [fmt |-> "Successfully got the price change for {symbol}: {price_change} ({price_change_percent}%)",
                      symbol |-> symbol, price_change |-> j.obj["priceChange"],
                      price_change_percent |-> j.obj["priceChangePercent"]]),
                   Return(j.obj))

get_price_24hr_change(symbol, reply) ==
    IF ~reply.ok THEN Outcome(<<>>, Raise("ConnectionError", NoMsg))
    ELSE IF reply.status # 200 THEN
        LET m == [fmt |-> "Error getting price change for {symbol}: {status_code} {text}",
                  symbol |-> symbol, status |-> reply.status, text |-> reply.text]
        IN  Outcome(<<m>>, Raise("Exception", m))
    ELSE
        LET j == ParseJson(reply.text) IN
        IF ~j.valid THEN Outcome(<<>>, Raise("JSONDecodeError", NoMsg))
        ELSE IF "priceChange" \notin DOMAIN j.obj
                \/ "priceChangePercent" \notin DOMAIN j.obj
            THEN Outcome(<<>>, Raise("KeyError", NoMsg))
        ELSE Outcome(
               <<[fmt |-> "Successfully got the price change for {symbol}: {price_change} ({price_change_percent}%)",
                  symbol |-> symbol, price_change |-> j.obj["priceChange"],
                  price_change_percent |-> j.obj["priceChangePercent"]]>>,
               Return(j.obj))

\* the rolling-window handler returning only the two fields it logs
get_rolling_windows_price_only_changes(symbol, window, reply) ==
    IF ~reply.ok THEN Outcome(<<>>, Raise("ConnectionError", NoMsg))
    ELSE IF reply.status # 200 THEN
        LET m == [fmt |-> "Error getting the price change for {symbol} in the window {window}: {status_code} {text}",
                  symbol |-> symbol, window |-> window,
                  status |-> reply.status, text |-> reply.text]
        IN  Outcome(<<m>>, Raise("Exception", m))
    ELSE
        LET j == ParseJson(reply.text) IN
        IF ~j.valid THEN Outcome(<<>>, Raise("JSONDecodeError", NoMsg))
        ELSE IF "priceChange" \notin DOMAIN j.obj
                \/ "priceChangePercent" \notin DOMAIN j.obj
            THEN Outcome(<<>>, Raise("KeyError", NoMsg))
        ELSE Outcome(
               <<[fmt |-> "Successfully got the price change for {symbol} in the window {window}: {price_change} ({price_change_percent}%)",
                  symbol |-> symbol, window |-> window,
                  price_change |-> j.obj["priceChange"],
                  price_change_percent |-> j.obj["priceChangePercent"]]>>,
               Return([priceChange |-> j.obj["priceChange"],
                       priceChangePercent |-> j.obj["priceChangePercent"]]))

get_rolling_windows_price(symbol, window, reply) ==
    IF ~reply.ok THEN Outcome(<<>>, Raise("ConnectionError", NoMsg))
    ELSE IF reply.status # 200 THEN
        LET m == [fmt |-> "Error getting the price change for {symbol} in the window {window}: {status_code} {text}",
                  symbol |-> symbol, window |-> window,
                  status |-> reply.status, text |-> reply.text]
        IN  Outcome(<<m>>, Raise("Exception", m))
    ELSE
        LET j == ParseJson(reply.text) IN
        IF ~j.valid THEN Outcome(<<>>, Raise("JSONDecodeError", NoMsg))
        ELSE IF "priceChange" \notin DOMAIN j.obj
                \/ "priceChangePercent" \notin DOMAIN j.obj
            THEN Outcome(<<>>, Raise("KeyError", NoMsg))
        ELSE Outcome(
               <<[fmt |-> "Successfully got the price change for {symbol} in the window {window}: {price_change} ({price_change_percent}%)",
                  symbol |-> symbol, window |-> window,
                  price_change |-> j.obj["priceChange"],
                  price_change_percent |-> j.obj["priceChangePercent"]]>>,
               Return(j.obj))

-----------------------------------------------------------------------------
(* The market-query handlers of the sse server, from the resolved symbol   *)
(* on; each logged message goes through log_activity.                      *)

\* get_price taking only a status of 400 or more as an error
sse_get_price_error_from_400(symbol, reply) ==
    IF ~reply.ok THEN Outcome(<<>>, Raise("ConnectionError", NoMsg))
    ELSE IF reply.status >= 400 THEN
        LET m == [fmt |-> "Error getting price for {symbol}: {status_code} {text}",
                  symbol |-> symbol, status |-> reply.status, text |-> reply.text]
        IN  Outcome(<<m>>, Raise("Exception", m))
    ELSE
        LET j == ParseJson(reply.text) IN
        IF ~j.valid THEN Outcome(<<>>, Raise("JSONDecodeError", NoMsg))
        ELSE IF "price" \notin DOMAIN j.obj THEN Outcome(<<>>, Raise("KeyError", NoMsg))
        ELSE Outcome(
               <<[fmt |-> "Successfully got the current price for {symbol}: {price}",
                  symbol |-> symbol, price |-> j.obj["price"]]>>,
               Return([fmt |-> "The current price of {symbol} is {price}",
                       symbol |-> symbol, price |-> j.obj["price"]]))

sse_get_price(symbol, reply) ==
    IF ~reply.ok THEN Outcome(<<>>, Raise("ConnectionError", NoMsg))
    ELSE IF reply.status # 200 THEN
        LET m == [fmt |-> "Error getting price for {symbol}: {status_code} {text}",
                  symbol |-> symbol, status |-> reply.status, text |-> reply.text]
        IN  Outcome(<<m>>, Raise("Exception", m))
    ELSE
        LET j == ParseJson(reply.text) IN
        IF ~j.valid THEN Outcome(<<>>, Raise("JSONDecodeError", NoMsg))
        ELSE IF "price" \notin DOMAIN j.obj THEN Outcome(<<>>, Raise("KeyError", NoMsg))
        ELSE Outcome(
               <<[fmt |-> "Successfully got the current price for {symbol}: {price}",
                  symbol |-> symbol, price |-> j.obj["price"]]>>,
               Return([fmt |-> "The current price of {symbol} is {price}",
                       symbol |-> symbol, price |-> j.obj["price"]]))

sse_get_price_24hr_change(symbol, reply) ==
    IF ~reply.ok THEN Outcome(<<>>, Raise("ConnectionError", NoMsg))
    ELSE IF reply.status # 200 THEN
        LET m == [fmt |-> "Error getting price change for {symbol}: {status_code} {text}",
                  symbol |-> symbol, status |-> reply.status, text |-> reply.text]
        IN  Outcome(<<m>>, Raise("Exception", m))
    ELSE
        LET j == ParseJson(reply.text) IN
        IF ~j.valid THEN Outcome(<<>>, Raise("JSONDecodeError", NoMsg))
        ELSE IF "priceChange" \notin DOMAIN j.obj
                \/ "priceChangePercent" \notin DOMAIN j.obj
            THEN Outcome(<<>>, Raise("KeyError", NoMsg))
        ELSE Outcome(
               <<[fmt |-> "Successfully got the price change for {symbol}: {price_change} ({price_change_percent}%)",
                  symbol |-> symbol, price_change |-> j.obj["priceChange"],
                  price_change_percent |-> j.obj["priceChangePercent"]]>>,
               Return(j.obj))

\* the rolling-window handler logging with the messages of the 24-hour handler
sse_get_rolling_windows_price_24hr_message(symbol, window, reply) ==
    IF ~reply.ok THEN Outcome(<<>>, Raise("ConnectionError", NoMsg))
    ELSE IF reply.status # 200 THEN
        LET m == [fmt |-> "Error getting the price change for {symbol}: {status_code} {text}",
                  symbol |-> symbol,
                  status |-> reply.status, text |-> reply.text]
        IN  Outcome(<<m>>, Raise("Exception", m))
    ELSE
        LET j == ParseJson(reply.text) IN
        IF ~j.valid THEN Outcome(<<>>, Raise("JSONDecodeError", NoMsg))
        ELSE IF "priceChange" \notin DOMAIN j.obj
                \/ "priceChangePercent" \notin DOMAIN j.obj
            THEN Outcome(<<>>, Raise("KeyError", NoMsg))
        ELSE Outcome(
               <<[fmt |-> "Successfully got the price change for {symbol}: {price_change} ({price_change_percent}%)",
                  symbol |-> symbol,
                  price_change |-> j.obj["priceChange"],
                  price_change_percent |-> j.obj["priceChangePercent"]]>>,
               Return(j.obj))

sse_get_rolling_windows_price(symbol, window, reply) ==
    IF ~reply.ok THEN Outcome(<<>>, Raise("ConnectionError", NoMsg))
    ELSE IF reply.status # 200 THEN
        LET m == [fmt |-> "Error getting the price change for {symbol} in the window {window}: {status_code} {text}",
                  symbol |-> symbol, window |-> window,
                  status |-> reply.status, text |-> reply.text]
        IN  Outcome(<<m>>, Raise("Exception", m))
    ELSE
        LET j == ParseJson(reply.text) IN
        IF ~j.valid THEN Outcome(<<>>, Raise("JSONDecodeError", NoMsg))
        ELSE IF "priceChange" \notin DOMAIN j.obj
                \/ "priceChangePercent" \notin DOMAIN j.obj
            THEN Outcome(<<>>, Raise("KeyError", NoMsg))
        ELSE Outcome(
               <<[fmt |-> "Successfully got the price change for {symbol} in the window {window}: {price_change} ({price_change_percent}%)",
                  symbol |-> symbol, window |-> window,
                  price_change |-> j.obj["priceChange"],
                  price_change_percent |-> j.obj["priceChangePercent"]]>>,
               Return(j.obj))

-----------------------------------------------------------------------------
(* The in-memory log of the sse server.                                    *)

\* deque(maxlen=1000)
Maxlen == 1000

\* a bounded deque that drops its right end (the newest entry) when full
deque_append_drop_newest(dq, x) ==
    IF Len(dq) >= Maxlen THEN Append(SubSeq(dq, 1, Len(dq) - 1), x) ELSE Append(dq, x)

\* collections.deque.append on a bounded deque: a full deque drops its left end
deque_append(dq, x) ==
    IF Len(dq) >= Maxlen THEN Append(Tail(dq), x) ELSE Append(dq, x)

\* a log_activity that appends its entry twice
log_activity_twice(dq, t, message) ==
    deque_append(deque_append(dq, DequeEntry(t, message)), DequeEntry(t, message))

\* log_activity(message), with t the reading of datetime.datetime.now()
log_activity(dq, t, message) == deque_append(dq, DequeEntry(t, message))

Max(a, b) == IF a >= b THEN a ELSE b
Min(a, b) == IF a <= b THEN a ELSE b

\* Python's seq[start:] for any integer start
PySliceFrom(seq, start) ==
    LET n == Len(seq)
        s == IF start < 0 THEN Max(n + start, 0) ELSE Min(start, n)
    IN  SubSeq(seq, s + 1, n)

\* "\n".join(parts)
Join(parts) == [sep |-> "\n", parts |-> parts]

\* get_recent_logs without the clamp of limit
get_recent_logs_no_clamp(dq, limit) ==
    LET recent_logs == PySliceFrom(dq, -limit)
    IN  Join(recent_logs)

\* get_recent_logs taking the slice from the left end: list(...)[:limit]
get_recent_logs_oldest_first(dq, limit) ==
    LET lim == Max(1, Min(limit, 100))
        recent_logs == SubSeq(dq, 1, Min(lim, Len(dq)))
    IN  Join(recent_logs)

\* get_recent_logs(limit)
get_recent_logs(dq, limit) ==
    LET lim == Max(1, Min(limit, 100))
        recent_logs == PySliceFrom(dq, -lim)
    IN  Join(recent_logs)

-----------------------------------------------------------------------------
(* Inputs.                                                                 *)

Btc     == <<"b","t","c">>
BtcUsdt == <<"B","T","C","U","S","D","T">>

\* names passed to the market-query handlers
QueryNames == { <<"B","t","c">>, <<"x","y","z">> }

\* names passed to the resolver
ResolveNames ==
    { Btc, <<"B","t","c">>, <<"B","T","C">>, BtcUsdt,
      <<"d","o","g","e">>, <<"D","o","g","E">>,
      <<"x","y","z">>, <<"X","y","Z">>, <<"X","Y","Z">>,
      <<"g","o","l","d">>, <<"G","O","L","D">>, <<"X","A","U">>,
      <<"X","B","T","U","S","D">>,
      <<"s","o","l">>, <<"S","O","L">>, <<LongS,"o","l">>,
      <<"s","t","r","a",SharpS,"e">>, <<"l","i","n",Kelvin>> }

\* window arguments of get_rolling_windows_price ("1d" is the default)
Windows == { <<"1","d">>, <<"9","9","d">> }

\* upstream replies
Replies ==
    { Reply(200, PriceText), Reply(200, TickerText), Reply(200, HtmlText),
      Reply(404, ErrorText), Reply(204, TickerText), ConnectionFailed }

\* limit arguments of get_recent_logs (50 is the default)
Limits == { -3, 0, 1, 2, 50, 100, 101, 2000 }

\* messages passed to log_activity in SpecRing
RingMessages == { [fmt |-> "entry"] }

Threads == {1, 2}

-----------------------------------------------------------------------------
(* The state after start-up.                                               *)

Call(op, name, window, reply, limit) ==
    [op |-> op, name |-> name, window |-> window, reply |-> reply, limit |-> limit]

NoCall == Call("", <<>>, NoWindow, ConnectionFailed, 0)
NoResult == Return(NoMsg)

IdleThreads == [t \in Threads |-> "idle"]
NoLocals == [t \in Threads |-> [name |-> <<>>, ref |-> NoneRef, row |-> 0, value |-> <<>>]]

\* everything but the server variant and the content of symbol_map.csv
InitCommon ==
    /\ dicts = <<>>
    /\ symbol_cache = NoneRef
    /\ log_file = <<>>
    /\ activity_logs = <<>>
    /\ appended = <<>>
    /\ clock = 0
    /\ outbound = <<>>
    /\ csv_reads = 0
    /\ call = NoCall
    /\ result = NoResult
    /\ pc = IdleThreads
    /\ local = NoLocals

\* the stdio server has run _initialize_files(); symbol_map.csv holds what
\* was there, or the default table; or it was removed after start-up
InitStdio(files) ==
    /\ variant = "stdio"
    /\ symbol_map_file \in {initialize_files(f) : f \in files} \cup {AbsentFile}
    /\ InitCommon

\* the sse server uses no file
InitSse ==
    /\ variant = "sse"
    /\ symbol_map_file = AbsentFile
    /\ InitCommon

-----------------------------------------------------------------------------
(* Market queries of the stdio server.                                     *)

StdioState ==
    [dicts |-> dicts, symbol_cache |-> symbol_cache, log_file |-> log_file,
     clock |-> clock, csv_reads |-> csv_reads]

\* a handler from its first line to its return or raise: resolve the symbol,
\* send the request, append what the handler logs to activity.log
StdioInvoke(op, path, name, window, reply) ==
    /\ Len(outbound) < MaxCalls
    /\ LET r == get_symbol_from_input(StdioState, symbol_map_file, name)
           o == IF op = "get_price" THEN get_price(r.value, reply)
                ELSE IF op = "get_price_24hr_change"
                    THEN get_price_24hr_change(r.value, reply)
                ELSE get_rolling_windows_price(r.value, window, reply)
           n == Len(o.log)
       IN  /\ dicts' = r.st.dicts
           /\ symbol_cache' = r.st.symbol_cache
           /\ csv_reads' = r.st.csv_reads
           /\ outbound' = Append(outbound, Url(path, r.value, window))
           /\ log_file' = r.st.log_file
                            \o [i \in 1..n |-> FileEntry(r.st.clock + i, o.log[i])]
           /\ clock' = r.st.clock + n
           /\ call' = Call(op, name, window, reply, 0)
           /\ result' = o.result
    /\ UNCHANGED <<variant, symbol_map_file, activity_logs, appended, pc, local>>

StdioGetPrice ==
    /\ variant = "stdio"
    /\ \E name \in QueryNames, reply \in Replies :
           StdioInvoke("get_price", "ticker/price", name, NoWindow, reply)

StdioGetPrice24hrChange ==
    /\ variant = "stdio"
    /\ \E name \in QueryNames, reply \in Replies :
           StdioInvoke("get_price_24hr_change", "ticker/24hr", name, NoWindow, reply)

StdioGetRollingWindowsPrice ==
    /\ variant = "stdio"
    /\ \E name \in QueryNames, window \in Windows, reply \in Replies :
           StdioInvoke("get_rolling_windows_price", "ticker", name, window, reply)

-----------------------------------------------------------------------------
(* Market queries of the sse server.                                       *)

SseInvoke(op, path, name, window, reply) ==
    /\ Len(outbound) < MaxCalls
    /\ LET symbol == sse_get_symbol_from_input(name)
           o == IF op = "get_price" THEN sse_get_price(symbol, reply)
                ELSE IF op = "get_price_24hr_change"
                    THEN sse_get_price_24hr_change(symbol, reply)
                ELSE sse_get_rolling_windows_price(symbol, window, reply)
           n == Len(o.log)
       IN  /\ outbound' = Append(outbound, Url(path, symbol, window))
           /\ activity_logs' = IF n = 0 THEN activity_logs
                               ELSE log_activity(activity_logs, clock + 1, o.log[1])
           /\ appended' = appended \o [i \in 1..n |-> DequeEntry(clock + i, o.log[i])]
           /\ clock' = clock + n
           /\ call' = Call(op, name, window, reply, 0)
           /\ result' = o.result
    /\ UNCHANGED <<variant, symbol_map_file, dicts, symbol_cache, log_file,
                   csv_reads, pc, local>>

SseGetPrice ==
    /\ variant = "sse"
    /\ \E name \in QueryNames, reply \in Replies :
           SseInvoke("get_price", "ticker/price", name, NoWindow, reply)

SseGetPrice24hrChange ==
    /\ variant = "sse"
    /\ \E name \in QueryNames, reply \in Replies :
           SseInvoke("get_price_24hr_change", "ticker/24hr", name, NoWindow, reply)

SseGetRollingWindowsPrice ==
    /\ variant = "sse"
    /\ \E name \in QueryNames, window \in Windows, reply \in Replies :
           SseInvoke("get_rolling_windows_price", "ticker", name, window, reply)

-----------------------------------------------------------------------------
(* The specification of the market queries, for either server.             *)

Init == InitStdio({AbsentFile, TruncatedFile}) \/ InitSse

Next ==
    \/ StdioGetPrice
    \/ StdioGetPrice24hrChange
    \/ StdioGetRollingWindowsPrice
    \/ SseGetPrice
    \/ SseGetPrice24hrChange
    \/ SseGetRollingWindowsPrice

Spec == Init /\ [][Next]_vars

-----------------------------------------------------------------------------
(* The resolver called on its own, any number of times.                    *)

StdioResolve ==
    /\ variant = "stdio"
    /\ \E name \in ResolveNames :
        LET r == get_symbol_from_input(StdioState, symbol_map_file, name)
        IN  /\ dicts' = r.st.dicts
            /\ symbol_cache' = r.st.symbol_cache
            /\ csv_reads' = r.st.csv_reads
            /\ log_file' = r.st.log_file
            /\ clock' = r.st.clock
            /\ call' = Call("get_symbol_from_input", name, NoWindow, ConnectionFailed, 0)
            /\ result' = Return(r.value)
    /\ UNCHANGED <<variant, symbol_map_file, activity_logs, appended, outbound,
                   pc, local>>

SseResolve ==
    /\ variant = "sse"
    /\ \E name \in ResolveNames :
        /\ call' = Call("get_symbol_from_input", name, NoWindow, ConnectionFailed, 0)
        /\ result' = Return(sse_get_symbol_from_input(name))
    /\ UNCHANGED <<variant, symbol_map_file, dicts, symbol_cache, log_file,
                   activity_logs, appended, clock, outbound, csv_reads, pc, local>>

InitResolve == InitStdio(FilesAtStartup) \/ InitSse

NextResolve == StdioResolve \/ SseResolve

SpecResolve == InitResolve /\ [][NextResolve]_vars

-----------------------------------------------------------------------------
(* The in-memory log of the sse server filled beyond its capacity, and     *)
(* read back with get_recent_logs.                                         *)

LogActivity ==
    /\ variant = "sse"
    /\ Len(appended) < Maxlen + MaxOverflow
    /\ \E message \in RingMessages :
        /\ activity_logs' = log_activity(activity_logs, clock + 1, message)
        /\ appended' = Append(appended, DequeEntry(clock + 1, message))
        /\ clock' = clock + 1
        /\ call' = Call("log_activity", <<>>, NoWindow, ConnectionFailed, 0)
        /\ result' = Return(NoMsg)
    /\ UNCHANGED <<variant, symbol_map_file, dicts, symbol_cache, log_file,
                   outbound, csv_reads, pc, local>>

GetRecentLogs ==
    /\ variant = "sse"
    /\ \E limit \in Limits :
        /\ call' = Call("get_recent_logs", <<>>, NoWindow, ConnectionFailed, limit)
        /\ result' = Return(get_recent_logs(activity_logs, limit))
    /\ UNCHANGED <<variant, symbol_map_file, dicts, symbol_cache, log_file,
                   activity_logs, appended, clock, outbound, csv_reads, pc, local>>

NextRing == LogActivity \/ GetRecentLogs

SpecRing == InitSse /\ [][NextRing]_vars

-----------------------------------------------------------------------------
(* Properties of the resolver (SpecResolve).                               *)

IsResolve(c) == c.op = "get_symbol_from_input"

\* the mapping the resolver of the running server looks names up in
Mapping == IF variant = "sse" THEN SYMBOL_MAPPINGS ELSE dicts[symbol_cache]

\* the table is the documented one: the static table, or the default file
DocumentedTable == variant = "sse" \/ symbol_map_file = DefaultFile

\* C2: every resolver call returns; it returns the symbol mapped to
\* lower(name) when lower(name) is a key of the mapping and upper(name) when
\* it is not; with the documented table btc, eth, sol and doge (in any letter
\* case) give BTCUSDT, ETHUSDT, SOLUSDT and DOGEUSDT.
C2_LookupThenFallback ==
    IsResolve(call) =>
        /\ result.kind = "return"
        /\ LET k == str_lower(call.name) IN
            /\ k \in DOMAIN Mapping => result.value = Mapping[k]
            /\ k \notin DOMAIN Mapping => result.value = str_upper(call.name)
            /\ DocumentedTable =>
                /\ k = Btc => result.value = BtcUsdt
                /\ k = <<"d","o","g","e">> =>
                       result.value = <<"D","O","G","E","U","S","D","T">>
                /\ k = <<"s","o","l">> => result.value = <<"S","O","L","U","S","D","T">>
                /\ k = <<"x","y","z">> => result.value = <<"X","Y","Z">>

\* a mixed-case known mnemonic resolved through the table loaded from the file
C2_Witness ==
    /\ variant = "stdio"
    /\ symbol_map_file = DefaultFile
    /\ IsResolve(call)
    /\ call.name = <<"D","o","g","E">>
    /\ result = Return(<<"D","O","G","E","U","S","D","T">>)

\* a and b differ only in letter case
CaseVariants(a, b) ==
    /\ Len(a) = Len(b)
    /\ \A i \in 1..Len(a) :
        \/ a[i] = b[i]
        \/ char_lower(a[i]) = char_lower(b[i])
        \/ char_upper(a[i]) = char_upper(b[i])

\* C3 as stated: for any two consecutive resolver calls, with either table,
\* inputs that differ only in letter case resolve to the same symbol, and
\* resolving the symbol that the previous call returned returns it again.
C3_AsStated ==
    [][ (IsResolve(call) /\ IsResolve(call')) =>
          /\ CaseVariants(call.name, call'.name) => result'.value = result.value
          /\ call'.name = result.value => result'.value = result.value ]_vars

\* every symbol of the table m is upper-case and is not itself, lower-cased,
\* a mnemonic of another symbol
SelfResolving(m) ==
    \A k \in DOMAIN m :
        /\ str_upper(m[k]) = m[k]
        /\ str_lower(m[k]) \in DOMAIN m => m[str_lower(m[k])] = m[k]

\* C3 amended: for ASCII names, inputs that differ only in letter case
\* resolve to the same symbol with either table; resolving the symbol that
\* the previous call returned returns it again when every symbol of the
\* table is upper-case and is not itself a mnemonic of another symbol, as in
\* the static table and the default symbol_map.csv.
C3_CaseInsensitiveIdempotent ==
    [][ (IsResolve(call) /\ IsResolve(call')
            /\ IsAscii(call.name) /\ IsAscii(call'.name)) =>
          /\ CaseVariants(call.name, call'.name) => result'.value = result.value
          /\ (call'.name = result.value /\ SelfResolving(Mapping'))
                => result'.value = result.value ]_vars

\* the symbol returned for a mnemonic, resolved again through the default file
C3_Witness ==
    /\ variant = "stdio"
    /\ symbol_map_file = DefaultFile
    /\ IsResolve(call)
    /\ call.name = BtcUsdt
    /\ result = Return(BtcUsdt)
    /\ SelfResolving(Mapping)

\* C8: in a sequential run symbol_map.csv is opened by the loader at most
\* once, and once the cache is set no step replaces it, changes the mapping
\* it holds or opens the file again.
C8_LoadedAtMostOnce ==
    [][ /\ csv_reads' <= 1
        /\ symbol_cache # NoneRef =>
              /\ symbol_cache' = symbol_cache
              /\ dicts' = dicts
              /\ csv_reads' = csv_reads ]_vars

\* the cache after a load that failed part-way, with the file opened once
C8_Witness ==
    /\ symbol_map_file = TruncatedFile
    /\ symbol_cache # NoneRef
    /\ csv_reads = 1
    /\ IsResolve(call)
    /\ call.name = <<"x","y","z">>

\* reading symbol_map.csv raises: the open, or a row of the file
ReadFails(file) ==
    file.exists /\ (file.open_fails \/ \E i \in 1..Len(file.rows) : file.rows[i].bad)

\* C10 as stated: when the read fails the resolver call still returns, every
\* name resolves to its upper-cased form (the mapping is empty), the log
\* holds exactly one entry for the failure, and the file was opened once.
C10_AsStated ==
    (variant = "stdio" /\ IsResolve(call) /\ ReadFails(symbol_map_file)) =>
        /\ result = Return(str_upper(call.name))
        /\ Mapping = EmptyDict
        /\ log_file = <<FileEntry(1, CsvErrorMsg)>>
        /\ csv_reads = 1

-----------------------------------------------------------------------------
(* Properties of the in-memory log (SpecRing).                             *)

\* the last k elements of s
LastK(s, k) == SubSeq(s, Len(s) - k + 1, Len(s))

\* C4: the deque never holds more than 1000 entries; it holds the entries
\* appended so far, in arrival order, and once more than 1000 were appended
\* exactly the 1000 most recent of them; after 1001 appends the first entry
\* is gone and entries 2..1001 are there in order.
C4_RingBuffer ==
    /\ Len(activity_logs) <= 1000
    /\ Len(appended) <= 1000 => activity_logs = appended
    /\ Len(appended) > 1000 => activity_logs = LastK(appended, 1000)
    /\ Len(appended) = 1001 =>
        /\ \A i \in 1..Len(activity_logs) : activity_logs[i] # appended[1]
        /\ \A i \in 1..1000 : activity_logs[i] = appended[i + 1]

\* the deque right after the append that evicted the first entry
C4_Witness ==
    /\ Len(appended) = 1001
    /\ Len(activity_logs) = 1000
    /\ activity_logs[1] = appended[2]
    /\ activity_logs[1000] = appended[1001]

\* C5: get_recent_logs(limit) returns, joined in insertion order, exactly
\* the min(c, n) most recent of the n entries of the log, where c is limit
\* clamped to 1..100.
C5_RecentLogs ==
    call.op = "get_recent_logs" =>
        LET c == IF call.limit < 1 THEN 1
                 ELSE IF call.limit > 100 THEN 100 ELSE call.limit
            n == Len(activity_logs)
            k == IF c < n THEN c ELSE n
        IN  /\ result.kind = "return"
            /\ Len(result.value.parts) = k
            /\ result.value.parts = LastK(activity_logs, k)

\* a limit of 0 on a log of several entries returns the newest entry alone
C5_Witness ==
    /\ call.op = "get_recent_logs"
    /\ call.limit = 0
    /\ Len(activity_logs) = 150
    /\ result.value.parts = <<activity_logs[150]>>

-----------------------------------------------------------------------------
(* Properties of the market queries (Spec).                                *)

MarketOps == {"get_price", "get_price_24hr_change", "get_rolling_windows_price"}

\* every entry the running server has logged
Log == IF variant = "stdio" THEN log_file ELSE appended

ErrorFormats ==
    { "Error getting price for {symbol}: {status_code} {text}",
      "Error getting price change for {symbol}: {status_code} {text}",
      "Error getting the price change for {symbol} in the window {window}: {status_code} {text}" }

SuccessFormats ==
    { "Successfully got the current price for {symbol}: {price}",
      "Successfully got the price change for {symbol}: {price_change} ({price_change_percent}%)",
      "Successfully got the price change for {symbol} in the window {window}: {price_change} ({price_change_percent}%)" }

\* C1 as stated: every market-query invocation, whatever the upstream reply,
\* leaves the log exactly one entry longer.
C1_AsStated ==
    [][ call'.op \in MarketOps => Len(Log') = Len(Log) + 1 ]_vars

\* a status outside 200..299
NonSuccess(status) == status < 200 \/ status > 299

\* C6: a market query answered with a non-success status raises an error
\* that carries the status code and the raw body; the step appends exactly
\* one upstream-error entry, whose message is that of the error and names
\* the symbol that was sent upstream (BTCUSDT for Btc with the documented
\* table), and appends no success entry.
C6_UpstreamError ==
    [][ (call'.op \in MarketOps /\ call'.reply.ok /\ NonSuccess(call'.reply.status)) =>
          LET new == SubSeq(Log', Len(Log) + 1, Len(Log'))
              sent == outbound'[Len(outbound')]
          IN  /\ Log = SubSeq(Log', 1, Len(Log))
              /\ result'.kind = "raise"
              /\ result'.value.fmt \in ErrorFormats
              /\ result'.value.status = call'.reply.status
              /\ result'.value.text = call'.reply.text
              /\ result'.value.symbol = sent.symbol
              /\ (DocumentedTable /\ str_lower(call'.name) = Btc)
                    => result'.value.symbol = BtcUsdt
              /\ Len(new) >= 1
              /\ new[Len(new)].message = result'.value
              /\ \A i \in 1..(Len(new) - 1) : new[i].message = CsvErrorMsg
              /\ \A i \in 1..Len(new) : new[i].message.fmt \notin SuccessFormats ]_vars

\* get_price of Btc answered 404 by the stdio server with the default table
C6_Witness ==
    /\ variant = "stdio"
    /\ symbol_map_file = DefaultFile
    /\ call.op = "get_price"
    /\ call.reply = Reply(404, ErrorText)
    /\ result.kind = "raise"
    /\ result.value.symbol = BtcUsdt
    /\ log_file # <<>>
    /\ log_file[Len(log_file)].message = result.value

Digits == <<"0","1","2","3","4","5","6","7","8","9">>
IsDigit(c) == \E i \in 1..10 : Digits[i] = c
DigitValue(c) == (CHOOSE i \in 1..10 : Digits[i] = c) - 1

RECURSIVE NumberOf(_)
NumberOf(ds) ==
    IF ds = <<>> THEN 0
    ELSE 10 * NumberOf(SubSeq(ds, 1, Len(ds) - 1)) + DigitValue(ds[Len(ds)])

\* the documented windows: <n>m with n in 1..59, <n>h with n in 1..23,
\* <n>d with n in 1..7
ValidWindow(w) ==
    /\ Len(w) >= 2
    /\ \A i \in 1..(Len(w) - 1) : IsDigit(w[i])
    /\ LET n == NumberOf(SubSeq(w, 1, Len(w) - 1))
           unit == w[Len(w)]
       IN  \/ unit = "m" /\ n \in 1..59
           \/ unit = "h" /\ n \in 1..23
           \/ unit = "d" /\ n \in 1..7

\* C7 as stated: get_rolling_windows_price called with a window outside the
\* documented ones fails with InvalidArgument, sends no request and logs no
\* upstream-error entry.
C7_AsStated ==
    [][ (call'.op = "get_rolling_windows_price" /\ ~ValidWindow(call'.window)) =>
          /\ result'.kind = "raise"
          /\ result'.exc = "InvalidArgument"
          /\ outbound' = outbound
          /\ \A i \in (Len(Log) + 1)..Len(Log') :
                Log'[i].message.fmt \notin ErrorFormats ]_vars

-----------------------------------------------------------------------------
(* The resolver of the stdio server called by concurrent threads, one call *)
(* of get_symbol_from_input per thread.  The code takes no lock, so a      *)
(* thread switch can fall between any two of the steps below.              *)

ConcNames == { Btc, <<"x","y","z">> }

ConcUnchanged == <<variant, symbol_map_file, activity_logs, appended, outbound,
                   call, result>>

\* a request arrives: get_symbol_from_input(name) starts
ConcBegin(t) ==
    /\ pc[t] = "idle"
    /\ \E name \in ConcNames :
        local' = [local EXCEPT ![t].name = name]
    /\ pc' = [pc EXCEPT ![t] = "check"]
    /\ UNCHANGED <<dicts, symbol_cache, log_file, clock, csv_reads>>
    /\ UNCHANGED ConcUnchanged

\* if _symbol_cache is not None: return _symbol_cache
ConcCheck(t) ==
    /\ pc[t] = "check"
    /\ IF symbol_cache # NoneRef
       THEN /\ local' = [local EXCEPT ![t].ref = symbol_cache]
            /\ pc' = [pc EXCEPT ![t] = "lookup"]
       ELSE /\ local' = local
            /\ pc' = [pc EXCEPT ![t] = "assign"]
    /\ UNCHANGED <<dicts, symbol_cache, log_file, clock, csv_reads>>
    /\ UNCHANGED ConcUnchanged

\* _symbol_cache = {}
ConcAssign(t) ==
    /\ pc[t] = "assign"
    /\ dicts' = Append(dicts, EmptyDict)
    /\ symbol_cache' = Len(dicts) + 1
    /\ pc' = [pc EXCEPT ![t] = "exists"]
    /\ UNCHANGED <<local, log_file, clock, csv_reads>>
    /\ UNCHANGED ConcUnchanged

\* if Path(SYMBOL_MAP_FILE).exists():
ConcExists(t) ==
    /\ pc[t] = "exists"
    /\ pc' = [pc EXCEPT ![t] = IF symbol_map_file.exists THEN "open" ELSE "return"]
    /\ UNCHANGED <<local, dicts, symbol_cache, log_file, clock, csv_reads>>
    /\ UNCHANGED ConcUnchanged

\* with open(SYMBOL_MAP_FILE, "r") as f: reader = csv.DictReader(f)
ConcOpen(t) ==
    /\ pc[t] = "open"
    /\ csv_reads' = csv_reads + 1
    /\ IF symbol_map_file.open_fails
       THEN /\ pc' = [pc EXCEPT ![t] = "except"]
            /\ local' = local
       ELSE /\ pc' = [pc EXCEPT ![t] = "rows"]
            /\ local' = [local EXCEPT ![t].row = 1]
    /\ UNCHANGED <<dicts, symbol_cache, log_file, clock>>
    /\ UNCHANGED ConcUnchanged

\* one turn of the for loop: _symbol_cache[row["crypto_name"].lower()] = row["symbol"],
\* written into the dict that the global names at this moment
ConcRow(t) ==
    /\ pc[t] = "rows"
    /\ LET rows == symbol_map_file.rows
           i == local[t].row
       IN  IF i > Len(rows)
           THEN /\ pc' = [pc EXCEPT ![t] = "return"]
                /\ UNCHANGED <<local, dicts>>
           ELSE IF rows[i].bad
           THEN /\ pc' = [pc EXCEPT ![t] = "except"]
                /\ UNCHANGED <<local, dicts>>
           ELSE /\ dicts' = [dicts EXCEPT ![symbol_cache] =
                                DictSet(@, str_lower(rows[i].crypto_name), rows[i].symbol)]
                /\ local' = [local EXCEPT ![t].row = i + 1]
                /\ pc' = pc
    /\ UNCHANGED <<symbol_cache, log_file, clock, csv_reads>>
    /\ UNCHANGED ConcUnchanged

\* except Exception as e: the failure is written to activity.log
ConcExcept(t) ==
    /\ pc[t] = "except"
    /\ log_file' = Append(log_file, FileEntry(clock + 1, CsvErrorMsg))
    /\ clock' = clock + 1
    /\ pc' = [pc EXCEPT ![t] = "return"]
    /\ UNCHANGED <<local, dicts, symbol_cache, csv_reads>>
    /\ UNCHANGED ConcUnchanged

\* return _symbol_cache
ConcReturn(t) ==
    /\ pc[t] = "return"
    /\ local' = [local EXCEPT ![t].ref = symbol_cache]
    /\ pc' = [pc EXCEPT ![t] = "lookup"]
    /\ UNCHANGED <<dicts, symbol_cache, log_file, clock, csv_reads>>
    /\ UNCHANGED ConcUnchanged

\* the lookup of get_symbol_from_input in the dict load_symbol_mappings returned
ConcLookup(t) ==
    /\ pc[t] = "lookup"
    /\ LET symbol_mappings == dicts[local[t].ref]
           name == local[t].name
       IN  local' = [local EXCEPT ![t].value =
                        IF str_lower(name) \in DOMAIN symbol_mappings
                        THEN symbol_mappings[str_lower(name)]
                        ELSE str_upper(name)]
    /\ pc' = [pc EXCEPT ![t] = "done"]
    /\ UNCHANGED <<dicts, symbol_cache, log_file, clock, csv_reads>>
    /\ UNCHANGED ConcUnchanged

InitConc == InitStdio({AbsentFile, TruncatedFile})

NextConc ==
    \E t \in Threads :
        \/ ConcBegin(t)
        \/ ConcCheck(t)
        \/ ConcAssign(t)
        \/ ConcExists(t)
        \/ ConcOpen(t)
        \/ ConcRow(t)
        \/ ConcExcept(t)
        \/ ConcReturn(t)
        \/ ConcLookup(t)

SpecConc == InitConc /\ [][NextConc]_vars

\* what get_symbol_from_input(name) returns when the load of the file runs
\* to its end before any lookup
FullyLoaded(name) ==
    get_symbol_from_input(
        [dicts |-> <<>>, symbol_cache |-> NoneRef, log_file |-> <<>>,
         clock |-> 0, csv_reads |-> 0],
        symbol_map_file, name).value

\* C9 as stated: with concurrent first calls the file is opened by one load
\* only, and every call returns what it returns once the load has run to its
\* end: no call computes its result from a mapping that is still being
\* filled.
C9_AsStated ==
    /\ csv_reads <= 1
    /\ \A t \in Threads :
        pc[t] = "done" => local[t].value = FullyLoaded(local[t].name)

-----------------------------------------------------------------------------
(* Market queries of the stdio server when activity.log may not be         *)
(* writable: log_ok = FALSE means open(LOG_FILE, "a") raises OSError.  No  *)
(* handler and no caller in the module catches it.                         *)

CallLog(op, name, window, reply, log_ok) ==
    [op |-> op, name |-> name, window |-> window, reply |-> reply, limit |-> 0,
     log_ok |-> log_ok]

PathOf(op) ==
    IF op = "get_price" THEN "ticker/price"
    ELSE IF op = "get_price_24hr_change" THEN "ticker/24hr"
    ELSE "ticker"

\* what the handler op does from the resolved symbol on
StdioOutcome(op, symbol, window, reply) ==
    IF op = "get_price" THEN get_price(symbol, reply)
    ELSE IF op = "get_price_24hr_change" THEN get_price_24hr_change(symbol, reply)
    ELSE get_rolling_windows_price(symbol, window, reply)

StdioInvokeLog(op, name, window, reply, log_ok) ==
    /\ Len(outbound) < MaxCalls
    /\ LET r == get_symbol_from_input(StdioState, symbol_map_file, name)
           o == StdioOutcome(op, r.value, window, reply)
           n == Len(o.log)
           \* the loader's except branch opens the log
           load_writes == r.st.log_file # log_file
       IN  /\ dicts' = r.st.dicts
           /\ symbol_cache' = r.st.symbol_cache
           /\ csv_reads' = r.st.csv_reads
           /\ call' = CallLog(op, name, window, reply, log_ok)
           /\ IF ~log_ok /\ load_writes
              THEN \* OSError leaves load_symbol_mappings: no request is sent
                   /\ result' = Raise("OSError", NoMsg)
                   /\ UNCHANGED <<outbound, log_file, clock>>
              ELSE IF ~log_ok /\ n > 0
              THEN \* OSError leaves the handler's with open(LOG_FILE, "a")
                   /\ result' = Raise("OSError", NoMsg)
                   /\ outbound' = Append(outbound, Url(PathOf(op), r.value, window))
                   /\ log_file' = r.st.log_file
                   /\ clock' = r.st.clock
              ELSE /\ result' = o.result
                   /\ outbound' = Append(outbound, Url(PathOf(op), r.value, window))
                   /\ log_file' = r.st.log_file
                            \o [i \in 1..n |-> FileEntry(r.st.clock + i, o.log[i])]
                   /\ clock' = r.st.clock + n
    /\ UNCHANGED <<variant, symbol_map_file, activity_logs, appended, pc, local>>

LogFailGetPrice ==
    /\ variant = "stdio"
    /\ \E name \in QueryNames, reply \in Replies, log_ok \in BOOLEAN :
           StdioInvokeLog("get_price", name, NoWindow, reply, log_ok)

LogFailGetPrice24hrChange ==
    /\ variant = "stdio"
    /\ \E name \in QueryNames, reply \in Replies, log_ok \in BOOLEAN :
           StdioInvokeLog("get_price_24hr_change", name, NoWindow, reply, log_ok)

LogFailGetRollingWindowsPrice ==
    /\ variant = "stdio"
    /\ \E name \in QueryNames, window \in Windows, reply \in Replies,
          log_ok \in BOOLEAN :
           StdioInvokeLog("get_rolling_windows_price", name, window, reply, log_ok)

InitLogFail == InitStdio({AbsentFile, TruncatedFile})

NextLogFail ==
    \/ LogFailGetPrice
    \/ LogFailGetPrice24hrChange
    \/ LogFailGetRollingWindowsPrice

SpecLogFail == InitLogFail /\ [][NextLogFail]_vars

\* C11 as stated: a failing log append is swallowed: the invocation sends
\* its request and returns or raises what the handler returns or raises for
\* that reply when the append succeeds; a 200 reply with the expected fields
\* is never turned into a failure.
C11_AsStated ==
    [][ call'.op \in {"get_price", "get_price_24hr_change",
                      "get_rolling_windows_price"} =>
          /\ Len(outbound') = Len(outbound) + 1
          /\ result' = StdioOutcome(call'.op, outbound'[Len(outbound')].symbol,
                                    call'.window, call'.reply).result ]_vars

-----------------------------------------------------------------------------
(* The two servers side by side: each invocation is given to both, with    *)
(* the same arguments and the same upstream reply.  The stdio server reads *)
(* the default symbol_map.csv written by _initialize_files().              *)

SseOutcome(op, symbol, window, reply) ==
    IF op = "get_price" THEN sse_get_price(symbol, reply)
    ELSE IF op = "get_price_24hr_change" THEN sse_get_price_24hr_change(symbol, reply)
    ELSE sse_get_rolling_windows_price(symbol, window, reply)

PairInvoke(op, name, window, reply) ==
    /\ Len(outbound) < 2 * MaxCalls
    /\ LET r == get_symbol_from_input(StdioState, symbol_map_file, name)
           o == StdioOutcome(op, r.value, window, reply)
           n == Len(o.log)
           sse_symbol == sse_get_symbol_from_input(name)
           sse_o == SseOutcome(op, sse_symbol, window, reply)
           sse_n == Len(sse_o.log)
       IN  /\ dicts' = r.st.dicts
           /\ symbol_cache' = r.st.symbol_cache
           /\ csv_reads' = r.st.csv_reads
           /\ log_file' = r.st.log_file
                            \o [i \in 1..n |-> FileEntry(r.st.clock + i, o.log[i])]
           /\ activity_logs' = IF sse_n = 0 THEN activity_logs
                               ELSE log_activity(activity_logs, clock + 1, sse_o.log[1])
           /\ appended' = appended
                            \o [i \in 1..sse_n |-> DequeEntry(clock + i, sse_o.log[i])]
           /\ clock' = Max(r.st.clock + n, clock + sse_n)
           \* the request of the stdio server, then the one of the sse server
           /\ outbound' = outbound \o <<Url(PathOf(op), r.value, window),
                                        Url(PathOf(op), sse_symbol, window)>>
           /\ call' = Call(op, name, window, reply, 0)
           /\ result' = [stdio |-> o.result, sse |-> sse_o.result]
    /\ UNCHANGED <<variant, symbol_map_file, pc, local>>

PairGetPrice ==
    /\ variant = "pair"
    /\ \E name \in QueryNames, reply \in Replies :
           PairInvoke("get_price", name, NoWindow, reply)

PairGetPrice24hrChange ==
    /\ variant = "pair"
    /\ \E name \in QueryNames, reply \in Replies :
           PairInvoke("get_price_24hr_change", name, NoWindow, reply)

PairGetRollingWindowsPrice ==
    /\ variant = "pair"
    /\ \E name \in QueryNames, window \in Windows, reply \in Replies :
           PairInvoke("get_rolling_windows_price", name, window, reply)

InitPair ==
    /\ variant = "pair"
    /\ symbol_map_file = initialize_files(AbsentFile)
    /\ InitCommon

NextPair ==
    \/ PairGetPrice
    \/ PairGetPrice24hrChange
    \/ PairGetRollingWindowsPrice

SpecPair == InitPair /\ [][NextPair]_vars

MessagesOf(log) == [i \in 1..Len(log) |-> log[i].message]

\* C12: given the same invocations and the same upstream replies, with the
\* default symbol table, the stdio and the sse server send the same
\* requests, return the same result or raise the same error, and have
\* logged the same messages in the same order; the sse buffer holds the
\* latest Maxlen of them.
C12_TransportEquivalence ==
    call # NoCall =>
        /\ result.stdio = result.sse
        /\ MessagesOf(log_file) = MessagesOf(appended)
        /\ \A i \in 1..Len(outbound) \div 2 : outbound[2 * i - 1] = outbound[2 * i]
        /\ activity_logs = LastK(appended, Min(Len(appended), Maxlen))

\* both servers resolved a mixed-case name through the table, one query
\* returned and a later one raised the upstream error
C12_Witness ==
    /\ variant = "pair"
    /\ Len(outbound) = 4
    /\ outbound[1].symbol = BtcUsdt
    /\ Len(log_file) = 2
    /\ log_file[1].message.fmt \in SuccessFormats
    /\ result.stdio.exc = "Exception"
    /\ result.sse.exc = "Exception"

-----------------------------------------------------------------------------
(* The surface of a server: tools called by name, prompts, resources.      *)

\* @mcp.tool() as in the sse server, in both servers
registered_tools_same_in_both(v) ==
    {"get_price", "get_price_24hr_change", "get_rolling_windows_price",
     "get_recent_logs"}

\* the functions under @mcp.tool()
registered_tools(v) ==
    IF v = "stdio"
    THEN {"get_price", "get_price_24hr_change", "get_rolling_windows_price"}
    ELSE {"get_price", "get_price_24hr_change", "get_rolling_windows_price",
          "get_recent_logs"}

\* names a client may ask for: the tools, the name of a prompt, and a name
\* that is nothing in the module
ToolNames ==
    {"get_price", "get_price_24hr_change", "get_rolling_windows_price",
     "get_recent_logs", "crypto_summary", "delete_logs"}

SurfaceNames == {<<"B","t","c">>}
SurfaceWindows == {<<"1","d">>}
SurfaceReplies == {Reply(200, PriceText), Reply(404, ErrorText)}
SurfaceLimits == {50}

\* the framework's answer to a name with no registered function: the
\* request fails and nothing of the module runs
UnknownTool(tool, name, window, reply, limit) ==
    /\ call' = Call(tool, name, window, reply, limit)
    /\ result' = Raise("NotFound", NoMsg)
    /\ UNCHANGED <<variant, symbol_map_file, dicts, symbol_cache, log_file,
                   activity_logs, appended, clock, outbound, csv_reads, pc, local>>

RecentLogsTool(limit) ==
    /\ call' = Call("get_recent_logs", <<>>, NoWindow, ConnectionFailed, limit)
    /\ result' = Return(get_recent_logs(activity_logs, limit))
    /\ UNCHANGED <<variant, symbol_map_file, dicts, symbol_cache, log_file,
                   activity_logs, appended, clock, outbound, csv_reads, pc, local>>

\* a tools/call request
CallTool ==
    \E tool \in ToolNames, name \in SurfaceNames, window \in SurfaceWindows,
       reply \in SurfaceReplies, limit \in SurfaceLimits :
        LET w == IF tool = "get_rolling_windows_price" THEN window ELSE NoWindow
        IN  IF tool \notin registered_tools(variant)
                THEN UnknownTool(tool, name, w, reply, limit)
            ELSE IF tool = "get_recent_logs" THEN RecentLogsTool(limit)
            ELSE IF variant = "stdio"
                THEN StdioInvoke(tool, PathOf(tool), name, w, reply)
            ELSE SseInvoke(tool, PathOf(tool), name, w, reply)

InitSurface == InitStdio({AbsentFile, TruncatedFile}) \/ InitSse

\* executive_summary(): a constant text
executive_summary ==
    [fmt |-> "Get the prices of the following crypto asset: btc, eth ..."]

\* a prompt that ignores its argument and names the assets of executive_summary
crypto_summary_fixed_assets(cryptos) ==
    [fmt |-> "Get the current price of the following crypto assets: {cryptos} ...",
     cryptos |-> <<"b","t","c",","," ","e","t","h">>]

\* crypto_summary(cryptos): the f-string with cryptos put in as given
crypto_summary(cryptos) ==
    [fmt |-> "Get the current price of the following crypto assets: {cryptos} ...",
     cryptos |-> cryptos]

\* asset lists: empty, two assets, braces
AssetLists ==
    {<<>>, <<"b","t","c",","," ","e","t","h">>, <<"{","}">>}

ExecutiveSummary ==
    /\ call' = Call("executive_summary", <<>>, NoWindow, ConnectionFailed, 0)
    /\ result' = Return(executive_summary)
    /\ UNCHANGED <<variant, symbol_map_file, dicts, symbol_cache, log_file,
                   activity_logs, appended, clock, outbound, csv_reads, pc, local>>

CryptoSummary ==
    /\ \E cryptos \in AssetLists :
        /\ call' = Call("crypto_summary", cryptos, NoWindow, ConnectionFailed, 0)
        /\ result' = Return(crypto_summary(cryptos))
    /\ UNCHANGED <<variant, symbol_map_file, dicts, symbol_cache, log_file,
                   activity_logs, appended, clock, outbound, csv_reads, pc, local>>

\* activity.log as a file: [exists, lines]
LogFileOf(lines) == [exists |-> TRUE, lines |-> lines]

\* an initialisation that opens the log for writing
initialize_log_file_truncating(f) == LogFileOf(<<>>)

\* _initialize_files on activity.log: touch() only when it does not exist
initialize_log_file(f) ==
    IF ~f.exists THEN LogFileOf(<<>>) ELSE f

\* f.read() of a file of lines
FileText(lines) == [sep |-> "", parts |-> lines]

\* resource file://activity.log
StdioReadLog ==
    /\ variant = "stdio"
    /\ call' = Call("read_log", <<>>, NoWindow, ConnectionFailed, 0)
    /\ result' = Return(FileText(log_file))
    /\ UNCHANGED <<variant, symbol_map_file, dicts, symbol_cache, log_file,
                   activity_logs, appended, clock, outbound, csv_reads, pc, local>>

\* resource file://symbol_map.csv
StdioGetSymbolMap ==
    /\ variant = "stdio"
    /\ call' = Call("get_symbol_map", <<>>, NoWindow, ConnectionFailed, 0)
    /\ result' = IF symbol_map_file.exists /\ ~symbol_map_file.open_fails
                 THEN Return(FileText(symbol_map_file.rows))
                 ELSE Raise("OSError", NoMsg)
    /\ UNCHANGED <<variant, symbol_map_file, dicts, symbol_cache, log_file,
                   activity_logs, appended, clock, outbound, csv_reads, pc, local>>

\* resource resource://crypto_price/{symbol}: get_price(symbol)
GetCryptoPrice ==
    \E name \in SurfaceNames, reply \in SurfaceReplies :
        IF variant = "stdio"
        THEN StdioInvoke("get_price", "ticker/price", name, NoWindow, reply)
        ELSE SseInvoke("get_price", "ticker/price", name, NoWindow, reply)

\* the stdio server is started again: a new process imports the module and
\* runs _initialize_files() on the files the last process left
StdioRestart ==
    /\ variant = "stdio"
    /\ log_file' = initialize_log_file(LogFileOf(log_file)).lines
    /\ symbol_map_file' = initialize_files(symbol_map_file)
    /\ dicts' = <<>>
    /\ symbol_cache' = NoneRef
    /\ csv_reads' = 0
    /\ call' = Call("_initialize_files", <<>>, NoWindow, ConnectionFailed, 0)
    /\ result' = Return(NoMsg)
    /\ UNCHANGED <<variant, activity_logs, appended, clock, outbound, pc, local>>

NextSurface ==
    \/ CallTool
    \/ ExecutiveSummary
    \/ CryptoSummary
    \/ GetCryptoPrice

SpecSurface == InitSurface /\ [][NextSurface]_vars

\* the stdio server over several runs of the process, on the same files
InitDurable ==
    /\ variant = "stdio"
    /\ symbol_map_file \in {DefaultFile, TruncatedFile}
    /\ InitCommon

NextDurable ==
    \/ CallTool
    \/ GetCryptoPrice
    \/ StdioReadLog
    \/ StdioGetSymbolMap
    \/ StdioRestart

SpecDurable == InitDurable /\ [][NextDurable]_vars

\* C13: a tool call with a name that is not a registered tool of the server
\* (get_price, get_price_24hr_change, get_rolling_windows_price, and
\* get_recent_logs in the sse server) fails with NotFound; no handler runs:
\* no request is sent, no log entry is written, no state changes.
C13_UnknownToolNotFound ==
    [][ (/\ call'.op \notin {"get_price", "get_price_24hr_change",
                             "get_rolling_windows_price"}
         /\ ~(variant = "sse" /\ call'.op = "get_recent_logs")
         /\ CallTool)
        => /\ result' = Raise("NotFound", NoMsg)
           /\ UNCHANGED <<outbound, log_file, activity_logs, appended, clock,
                          dicts, symbol_cache, csv_reads, symbol_map_file>> ]_vars

\* the stdio server, after a query that was logged, is asked for
\* get_recent_logs, a tool of the sse server only
C13_Witness ==
    /\ variant = "stdio"
    /\ call.op = "get_recent_logs"
    /\ result.exc = "NotFound"
    /\ Len(outbound) >= 1
    /\ Len(log_file) >= 1

\* C15: rendering a prompt (executive_summary, or crypto_summary with any
\* asset list) sends no request, writes no log entry, neither loads nor
\* changes the symbol cache, and returns a text; the text of crypto_summary
\* holds the asset list as it was given.
C15_PromptsArePure ==
    [][ (ExecutiveSummary \/ CryptoSummary) =>
          /\ UNCHANGED <<outbound, log_file, activity_logs, appended, clock,
                         dicts, symbol_cache, csv_reads, symbol_map_file>>
          /\ result'.kind = "return"
          /\ result'.value.fmt # ""
          /\ call'.op = "crypto_summary" => result'.value.cryptos = call'.name ]_vars

\* crypto_summary rendered with an asset list of braces by the stdio server
\* that has answered a query before
C15_Witness ==
    /\ variant = "stdio"
    /\ call.op = "crypto_summary"
    /\ call.name = <<"{","}">>
    /\ result.kind = "return"
    /\ Len(outbound) >= 1
    /\ symbol_cache # NoneRef

-----------------------------------------------------------------------------
(* Properties of the market queries (Spec), continued.                     *)

\* C14: a 24-hour or rolling-window query answered 200 with a body that has
\* priceChange and priceChangePercent returns the whole parsed body: those
\* two fields and every other field (symbol, lastPrice) with the values
\* sent, for either name and either window.
C14_FullPayload ==
    (/\ call.op \in {"get_price_24hr_change", "get_rolling_windows_price"}
     /\ call.reply = Reply(200, TickerText))
    => result = Return([symbol |-> "BTCUSDT", priceChange |-> "120.5",
                        priceChangePercent |-> "2.3", lastPrice |-> "100.5"])

\* a rolling-window query of Btc over 1d returned the payload
C14_Witness ==
    /\ call.op = "get_rolling_windows_price"
    /\ call.name = <<"B","t","c">>
    /\ call.window = <<"1","d">>
    /\ call.reply = Reply(200, TickerText)
    /\ result.kind = "return"
    /\ result.value.lastPrice = "100.5"

-----------------------------------------------------------------------------
(* log_activity called by concurrent requests of the sse server.  A call   *)
(* reads the time, then appends to the deque (one atomic deque.append),    *)
(* then writes to the console logger; other threads run in between.        *)

\* calls of log_activity per thread
MaxLogCalls == 2

\* entries logged before the concurrent requests start
Prefilled == Maxlen - 1

ConcMessage(t, k) == [fmt |-> "entry", thread |-> t, seq |-> k]

InitConcLog ==
    /\ variant = "sse"
    /\ symbol_map_file = AbsentFile
    /\ dicts = <<>>
    /\ symbol_cache = NoneRef
    /\ log_file = <<>>
    /\ activity_logs = [i \in 1..Prefilled |-> DequeEntry(i, ConcMessage(0, i))]
    /\ appended = activity_logs
    /\ clock = Prefilled
    /\ outbound = <<>>
    /\ csv_reads = 0
    /\ call = NoCall
    /\ result = NoResult
    /\ pc = IdleThreads
    /\ local = [t \in Threads |-> [calls |-> 0, timestamp |-> 0]]

ConcLogUnchanged ==
    UNCHANGED <<variant, symbol_map_file, dicts, symbol_cache, log_file,
                outbound, csv_reads, call, result>>

\* timestamp = datetime.now().isoformat()
LogTimestamp(t) ==
    /\ pc[t] = "idle"
    /\ local[t].calls < MaxLogCalls
    /\ clock' = clock + 1
    /\ local' = [local EXCEPT ![t].timestamp = clock + 1]
    /\ pc' = [pc EXCEPT ![t] = "append"]
    /\ UNCHANGED <<activity_logs, appended>>
    /\ ConcLogUnchanged

\* _activity_logs.append(log_entry)
LogAppend(t) ==
    /\ pc[t] = "append"
    /\ LET message == ConcMessage(t, local[t].calls + 1)
       IN  /\ activity_logs' = log_activity(activity_logs, local[t].timestamp, message)
           /\ appended' = Append(appended, DequeEntry(local[t].timestamp, message))
    /\ pc' = [pc EXCEPT ![t] = "info"]
    /\ UNCHANGED <<clock, local>>
    /\ ConcLogUnchanged

\* logging.info(log_entry), return
LogInfo(t) ==
    /\ pc[t] = "info"
    /\ local' = [local EXCEPT ![t].calls = @ + 1]
    /\ pc' = [pc EXCEPT ![t] = "idle"]
    /\ UNCHANGED <<activity_logs, appended, clock>>
    /\ ConcLogUnchanged

NextConcLog ==
    \E t \in Threads :
        \/ LogTimestamp(t)
        \/ LogAppend(t)
        \/ LogInfo(t)

SpecConcLog == InitConcLog /\ [][NextConcLog]_vars

\* the k-th call of thread t has done its append
HasAppended(t, k) ==
    \/ k <= local[t].calls
    \/ k = local[t].calls + 1 /\ pc[t] = "info"

\* C16: under every interleaving of concurrent log_activity calls the
\* buffer holds at most Maxlen entries, it holds the latest entries in the
\* order in which the appends took effect (so every eviction removed the
\* oldest entry), and the entry of every call that has appended is in it
\* exactly once, that of a call that has not is in it not at all.
C16_ConcurrentAppends ==
    /\ Len(activity_logs) <= Maxlen
    /\ activity_logs = LastK(appended, Min(Len(appended), Maxlen))
    /\ \A t \in Threads : \A k \in 1..MaxLogCalls :
          Cardinality({i \in DOMAIN activity_logs :
                          activity_logs[i].message = ConcMessage(t, k)})
            = IF HasAppended(t, k) THEN 1 ELSE 0

\* the buffer has overflowed and two threads appended in the order opposite
\* to the one in which they read the time
C16_Witness ==
    /\ Len(appended) > Maxlen
    /\ Len(activity_logs) = Maxlen
    /\ activity_logs[Maxlen - 1].time > activity_logs[Maxlen].time
    /\ activity_logs[Maxlen - 1].message.thread # activity_logs[Maxlen].message.thread

-----------------------------------------------------------------------------
(* Market queries over the status classes of the upstream reply.           *)

StatusNames == {<<"B","t","c">>}
StatusWindows == {<<"1","d">>}

\* 2xx with and without the fields, 2xx other than 200 with a well-formed
\* body, error statuses with an error body, a ticker body, a non-JSON body,
\* and no reply at all
StatusReplies ==
    {Reply(200, PriceText), Reply(200, TickerText), Reply(200, HtmlText),
     Reply(201, PriceText), Reply(204, TickerText),
     Reply(404, ErrorText), Reply(500, TickerText), Reply(502, HtmlText),
     ConnectionFailed}

StdioStatusQuery ==
    /\ variant = "stdio"
    /\ \E op \in {"get_price", "get_price_24hr_change", "get_rolling_windows_price"},
          name \in StatusNames, window \in StatusWindows, reply \in StatusReplies :
           StdioInvoke(op, PathOf(op), name,
                       IF op = "get_rolling_windows_price" THEN window ELSE NoWindow,
                       reply)

SseStatusQuery ==
    /\ variant = "sse"
    /\ \E op \in {"get_price", "get_price_24hr_change", "get_rolling_windows_price"},
          name \in StatusNames, window \in StatusWindows, reply \in StatusReplies :
           SseInvoke(op, PathOf(op), name,
                     IF op = "get_rolling_windows_price" THEN window ELSE NoWindow,
                     reply)

InitStatus == InitStdio({AbsentFile, TruncatedFile}) \/ InitSse

NextStatus == StdioStatusQuery \/ SseStatusQuery

SpecStatus == InitStatus /\ [][NextStatus]_vars

RequiredFields(op) ==
    IF op = "get_price" THEN {"price"} ELSE {"priceChange", "priceChangePercent"}

\* the body is JSON and has the fields the operation reads
WellFormed(op, text) ==
    /\ ParseJson(text).valid
    /\ RequiredFields(op) \subseteq DOMAIN ParseJson(text).obj

\* the step raised the upstream error and logged it last
UpstreamErrorStep ==
    /\ result'.kind = "raise"
    /\ result'.exc = "Exception"
    /\ result'.value.fmt \in ErrorFormats
    /\ result'.value.status = call'.reply.status
    /\ result'.value.text = call'.reply.text
    /\ Len(Log') > Len(Log)
    /\ Log'[Len(Log')].message = result'.value

\* the step returned and logged a success entry last
SuccessStep ==
    /\ result'.kind = "return"
    /\ Len(Log') > Len(Log)
    /\ Log'[Len(Log')].message.fmt \in SuccessFormats

\* C17 as stated: a reply with a status outside 200..299 makes the query
\* fail with the upstream error whatever its body, and a reply with a status
\* in 200..299 and a well-formed body is returned and logged as a success.
C17_AsStated ==
    [][ (call'.op \in MarketOps /\ call'.reply.ok) =>
          /\ NonSuccess(call'.reply.status) => UpstreamErrorStep
          /\ (~NonSuccess(call'.reply.status)
                /\ WellFormed(call'.op, call'.reply.text)) => SuccessStep ]_vars

\* C17, amended: a reply with a status other than 200 makes the query fail
\* with the upstream error whatever its body, and a reply with status 200
\* and a well-formed body is returned and logged as a success.
C17_StatusIs200 ==
    [][ (call'.op \in MarketOps /\ call'.reply.ok) =>
          /\ call'.reply.status # 200 => UpstreamErrorStep
          /\ (call'.reply.status = 200
                /\ WellFormed(call'.op, call'.reply.text)) => SuccessStep ]_vars

\* a 204 reply with the ticker body made a 24-hour query fail, and a 502
\* reply with a non-JSON body was logged before it
C17_Witness ==
    /\ call.op = "get_price_24hr_change"
    /\ call.reply = Reply(204, TickerText)
    /\ result.exc = "Exception"
    /\ Len(Log) >= 2
    /\ Log[Len(Log) - 1].message.fmt \in ErrorFormats
    /\ Log[Len(Log) - 1].message.status = 502

\* what a request would return if it were the next one served
ResultOfNext(st, file, op, name, window, reply) ==
    IF variant = "stdio"
    THEN StdioOutcome(op, get_symbol_from_input(st, file, name).value,
                      window, reply).result
    ELSE SseOutcome(op, sse_get_symbol_from_input(name), window, reply).result

\* requests asked after a failed one
ProbeReplies == {Reply(200, PriceText), Reply(404, ErrorText)}

\* a failed invocation leaves what the next request returns as it was
SameLaterResults ==
    \A name \in QueryNames, reply \in ProbeReplies :
        ResultOfNext(StdioState', symbol_map_file', "get_price", name, NoWindow, reply)
          = ResultOfNext(StdioState, symbol_map_file, "get_price", name, NoWindow, reply)

-----------------------------------------------------------------------------
(* Properties of activity.log over the runs of the stdio server            *)
(* (SpecDurable).                                                          *)

\* C19: activity.log is append-only: over every step (a market query, with
\* or without a load of the symbol file, a read of a resource, a start of
\* the process on an existing log) the log before the step is a prefix of
\* the log after it, and its entries are in the order in which they were
\* written.
C19_AppendOnly ==
    [][ /\ Len(log_file') >= Len(log_file)
        /\ log_file = SubSeq(log_file', 1, Len(log_file))
        /\ \A i \in 1..(Len(log_file') - 1) :
              log_file'[i].time < log_file'[i + 1].time ]_vars

\* the process was started on a log that holds the failed loads of two
\* earlier runs and the entries of their queries
C19_Witness ==
    /\ call.op = "_initialize_files"
    /\ symbol_cache = NoneRef
    /\ Len(log_file) = 4
    /\ log_file[1].message = CsvErrorMsg
    /\ log_file[3].message = CsvErrorMsg
    /\ log_file[4].message.fmt \in ErrorFormats

-----------------------------------------------------------------------------
(* Properties of the market queries over the status classes (SpecStatus),  *)
(* continued.                                                              *)

\* the figures of a success entry are those of the body
FiguresFromBody(op, message, text) ==
    LET data == ParseJson(text).obj
    IN  IF op = "get_price" THEN message.price = data["price"]
        ELSE /\ message.price_change = data["priceChange"]
             /\ message.price_change_percent = data["priceChangePercent"]

\* C20: a success entry is appended only by an invocation whose reply had
\* status 200 and the fields the operation reads, which it returns; an
\* error entry only by an invocation that raises; no invocation appends
\* both; either entry names the symbol of the request that was sent.
C20_EntriesAgree ==
    [][ call'.op \in MarketOps =>
          LET new == SubSeq(Log', Len(Log) + 1, Len(Log'))
              sent == outbound'[Len(outbound')]
              success == {i \in 1..Len(new) : new[i].message.fmt \in SuccessFormats}
              error == {i \in 1..Len(new) : new[i].message.fmt \in ErrorFormats}
          IN  /\ \A i \in success :
                    /\ call'.reply.ok
                    /\ call'.reply.status = 200
                    /\ WellFormed(call'.op, call'.reply.text)
                    /\ FiguresFromBody(call'.op, new[i].message, call'.reply.text)
                    /\ result'.kind = "return"
                    /\ new[i].message.symbol = sent.symbol
              /\ \A i \in error :
                    /\ result'.kind = "raise"
                    /\ new[i].message.symbol = sent.symbol
              /\ success = {} \/ error = {} ]_vars

\* the stdio server logged a success entry for BTCUSDT and then an error
\* entry for BTCUSDT, by two invocations
C20_Witness ==
    /\ variant = "stdio"
    /\ symbol_map_file = DefaultFile
    /\ Len(log_file) = 2
    /\ log_file[1].message.fmt \in SuccessFormats
    /\ log_file[1].message.symbol = BtcUsdt
    /\ log_file[2].message.fmt \in ErrorFormats
    /\ log_file[2].message.symbol = BtcUsdt
    /\ result.kind = "raise"

-----------------------------------------------------------------------------
(* Reading the log: read_log of either server and get_recent_logs of the   *)
(* sse server, between market queries.                                     *)

\* read_log() of the sse server
sse_read_log(dq) == Join(dq)

\* resource memory://activity_log
SseReadLog ==
    /\ variant = "sse"
    /\ call' = Call("read_log", <<>>, NoWindow, ConnectionFailed, 0)
    /\ result' = Return(sse_read_log(activity_logs))
    /\ UNCHANGED <<variant, symbol_map_file, dicts, symbol_cache, log_file,
                   activity_logs, appended, clock, outbound, csv_reads, pc, local>>

InitRead == InitStdio({AbsentFile, TruncatedFile}) \/ InitSse

NextRead ==
    \/ CallTool
    \/ StdioReadLog
    \/ SseReadLog
    \/ GetRecentLogs

SpecRead == InitRead /\ [][NextRead]_vars

IsSuffix(s, t) ==
    /\ Len(s) <= Len(t)
    /\ s = SubSeq(t, Len(t) - Len(s) + 1, Len(t))

\* the log the running server reads from
ReadableLog == IF variant = "stdio" THEN log_file ELSE activity_logs

\* C21: a read of the log (read_log of either server, get_recent_logs of
\* the sse server) adds, removes and reorders no entry and sends no request;
\* read_log returns the entries of the log in their order, get_recent_logs
\* returns entries that are a suffix of what read_log returns, joined the
\* same way; a read that follows the same read returns the same content.
C21_ReadsAreConsistent ==
    [][ (StdioReadLog \/ SseReadLog \/ GetRecentLogs) =>
          /\ UNCHANGED <<log_file, activity_logs, appended, outbound, clock,
                         dicts, symbol_cache, csv_reads, symbol_map_file>>
          /\ result'.kind = "return"
          /\ call'.op = "read_log" => result'.value.parts = ReadableLog'
          /\ call'.op = "get_recent_logs" =>
                /\ IsSuffix(result'.value.parts, sse_read_log(activity_logs').parts)
                /\ result'.value.sep = sse_read_log(activity_logs').sep
                /\ activity_logs' # <<>> => result'.value.parts # <<>>
          /\ (call.op = call'.op /\ call.limit = call'.limit) => result' = result ]_vars

\* the sse server, holding the entries of two queries, is asked for the most
\* recent one
C21_Witness ==
    /\ variant = "sse"
    /\ call.op = "get_recent_logs"
    /\ call.limit = 1
    /\ Len(activity_logs) = 2
    /\ result.value.parts = <<activity_logs[2]>>

====
